---- MODULE Spec2Model ----
(***************************************************************************)
(* A model of django-drip (steelkiwi fork): rule based audience selection  *)
(* (drip/models.py QuerySetRule, drip/drips.py DripBase), the run          *)
(* pipeline prune -> send with its SentDrip bookkeeping, the direct        *)
(* message (DripMessage), the walk over shifted instances and the mailgun  *)
(* batch sender (drip/mailgun.py send_batch, DripMailgun.send).            *)
(*                                                                         *)
(* Time is an integer number of ticks; a day is TicksPerDay ticks.         *)
(* Strings the code inspects (rule values, template bodies) are sequences  *)
(* of tokens, so that startswith/replace/strip_tags are computed.          *)
(***************************************************************************)
EXTENDS Integers, Sequences, FiniteSets, TLC

(***************************************************************************)
(* Bounds of the model.                                                    *)
(***************************************************************************)
NumUsers == 3
NumDrips == 2
MaxRuns == 2
MaxClock == 2
MaxRules == 2
MaxBody == 4
MaxWalk == 2
MaxItems == 5
MaxBatchSize == 3
TicksPerDay == 2
MaxRaw == 3
MaxSent == 3

Users == 1..NumUsers
Drips == 1..NumDrips
RunIds == 1..MaxRuns

VARIABLES
    clock,      \* conditional_now(): the wall clock, in ticks
    drips,      \* the Drip rows: enabled, message_class, queryset_rules
    userRows,   \* the rows DripBase.queryset() yields (user ids, in order)
    serious,    \* settings.MAILGUN['YES_I_WANT_TO_SEND_MAILGUN_EMAIL_SERIOUSLY']
    sentdrips,  \* the SentDrip table, in creation order
    runs,       \* the calls of run(): one record per call
    nextRun,    \* the next call of run() to start
    mails,      \* history: every message.send() of DripBase.send
    sb,         \* the call of mailgun.send_batch in progress (or none)
    sbInput,    \* the arguments of a direct call of send_batch
    posts,      \* history: every post(url, auth, data) of send_batch
    sel,        \* the result of a call of get_queryset()
    wk,         \* the source instance and the result of a call of walk()
    msg,        \* the DripMessage built by DripMessage.message
    call        \* a call of a pure method: its arguments and its result

vars == <<clock, drips, userRows, serious, sentdrips, runs, nextRun, mails,
          sb, sbInput, posts, sel, wk, msg, call>>

(***************************************************************************)
(* The recipient store. The core never writes it; the attributes of a      *)
(* user are fixed functions of its id.                                     *)
(***************************************************************************)
UserA(u) == (u % 2) + 1
UserB(u) == ((u \div 2) % 2) + 1
UserJoined(u) == (u - 1) % (MaxClock + 1)
\* user.email: every third user has an empty address
UserEmail(u) == IF u % 3 = 0 THEN [kind |-> "empty", n |-> 0]
                ELSE [kind |-> "ok", n |-> u]
AllUsers == [i \in 1..NumUsers |-> i]

(***************************************************************************)
(* QuerySetRule (drip/models.py). A rule is a record                       *)
(*   [method_type, field_name, lookup_type, field_value]                   *)
(* and field_value is a sequence of tokens: "now-1 day" is <<"now-","1">>, *)
(* "F_a" is <<"F_","a">>, "True" is <<"True">>, "2" is <<"2">>.            *)
(***************************************************************************)
METHOD_TYPES == {"filter", "exclude"}

\* str.startswith(prefix), for a prefix that is one token
startswith(toks, prefix) == Len(toks) > 0 /\ toks[1] = prefix

\* str.replace(old, ''): every occurrence of the token goes, not only the first
replace(toks, old) == SelectSeq(toks, LAMBDA t: t # old)

\* the value of a number written as one token; -1 when it is no number
LitNum(toks) ==
    IF Len(toks) # 1 THEN -1
    ELSE CASE toks[1] = "0" -> 0
           [] toks[1] = "1" -> 1
           [] toks[1] = "2" -> 2
           [] toks[1] = "3" -> 3
           [] OTHER -> -1

\* djangotimedelta.parse: a duration in days, as ticks
parse(toks) == LitNum(toks) * TicksPerDay

\* datetime.date(): the day a tick lies in
date(t) == t \div TicksPerDay

Val(kind, num, toks) == [kind |-> kind, num |-> num, toks |-> toks]

\* the resolved value of QuerySetRule.filter_kwargs; now is the value of now()
filter_value(fv, now) ==
    LET v0 == Val("lit", 0, fv)
        v1 == IF startswith(fv, "now-")
                THEN Val("datetime", now - parse(replace(fv, "now-")), <<>>)
              ELSE IF startswith(fv, "now+")
                THEN Val("datetime", now + parse(replace(fv, "now+")), <<>>)
              ELSE IF startswith(fv, "today-")
                THEN Val("date", date(now) - date(parse(replace(fv, "today-"))), <<>>)
              ELSE IF startswith(fv, "today+")
                THEN Val("date", date(now) + date(parse(replace(fv, "today+"))), <<>>)
              ELSE v0
        v2 == IF startswith(fv, "F_") THEN Val("F", 0, replace(fv, "F_")) ELSE v1
        v3 == IF fv = <<"True">> THEN Val("bool", 1, <<>>) ELSE v2
        v4 == IF fv = <<"False">> THEN Val("bool", 0, <<>>) ELSE v3
    IN v4

filter_kwargs(rule, now) ==
    [field |-> rule.field_name, lookup |-> rule.lookup_type,
     value |-> filter_value(rule.field_value, now)]

(***************************************************************************)
(* The store's side of a lookup: Q of the kwargs, evaluated on one user row.    *)
(***************************************************************************)
FieldOf(u, name) ==
    CASE name = "a" -> UserA(u)
      [] name = "b" -> UserB(u)
      [] name = "joined" -> UserJoined(u)
      [] OTHER -> -1

\* the number a resolved value stands for on the row of user u
ValueOn(u, v) ==
    CASE v.kind = "datetime" -> v.num
      [] v.kind = "date" -> v.num * TicksPerDay
      [] v.kind = "bool" -> v.num
      [] v.kind = "F" -> IF Len(v.toks) = 1 THEN FieldOf(u, v.toks[1]) ELSE -1
      [] OTHER -> LitNum(v.toks)

Q(kw, u) ==
    LET x == FieldOf(u, kw.field)
        y == ValueOn(u, kw.value)
    IN  CASE kw.lookup = "exact" -> x = y
          [] kw.lookup = "gt" -> x > y
          [] kw.lookup = "gte" -> x >= y
          [] kw.lookup = "lt" -> x < y
          [] kw.lookup = "lte" -> x <= y
          [] OTHER -> FALSE

(***************************************************************************)
(* DripBase: now, apply_queryset_rules, get_queryset (drip/drips.py).      *)
(***************************************************************************)
\* a now() that forgets now_shift_kwargs
now_Unshifted(shift) == clock

\* DripBase.now(): conditional_now() + timedelta(days=shift)
now(shift) == clock + shift * TicksPerDay

\* rule.filter_kwargs(qs, now=self.now) on an instance shifted by shift days
rule_kwargs(rule, shift) == filter_kwargs(rule, now(shift))

\* the kwargs of the rules of one method type, in rule order
Clauses(rules, shift, exclude) ==
    LET mine == SelectSeq(rules, LAMBDA r: (r.method_type = "exclude") = exclude)
    IN  [i \in 1..Len(mine) |-> rule_kwargs(mine[i], shift)]

\* excludes that are and-ed instead of or-ed
ExcludeQ_And(kws, u) == \A i \in 1..Len(kws) : Q(kws[i], u)

\* functools.reduce(operator.or_, clauses['exclude']) on one row
ExcludeQ(kws, u) == \E i \in 1..Len(kws) : Q(kws[i], u)

\* filters that are or-ed instead of and-ed
FilterQ_Or(kws, u) == Len(kws) = 0 \/ \E i \in 1..Len(kws) : Q(kws[i], u)

\* qs.filter of all of clauses['filter'] at once, on one row
FilterQ(kws, u) == \A i \in 1..Len(kws) : Q(kws[i], u)

apply_queryset_rules(rules, shift, qs) ==
    LET ex == Clauses(rules, shift, TRUE)
        fi == Clauses(rules, shift, FALSE)
        qs1 == IF Len(ex) > 0 THEN SelectSeq(qs, LAMBDA u: ~ExcludeQ(ex, u)) ELSE qs
    IN  SelectSeq(qs1, LAMBDA u: FilterQ(fi, u))

\* QuerySet.distinct(): the first row of every user stays
distinct(qs) ==
    LET keep(i) == \A j \in 1..(i - 1) : qs[j] # qs[i]
        F[i \in 0..Len(qs)] ==
            IF i = 0 THEN <<>>
            ELSE IF keep(i) THEN Append(F[i - 1], qs[i]) ELSE F[i - 1]
    IN  F[Len(qs)]

\* DripBase.get_queryset(), before any prune
get_queryset(d, shift) ==
    distinct(apply_queryset_rules(drips[d].rules, shift, userRows))

Range(s) == {s[i] : i \in 1..Len(s)}

(***************************************************************************)
(* The run pipeline of DripBase: run, prune, send (drip/drips.py).         *)
(***************************************************************************)
Ret(kind, n) == [kind |-> kind, n |-> n]
RetUnset == Ret("unset", 0)
RetNone == Ret("None", 0)
RetRaised == Ret("raised", 0)

NoRun == [pc |-> "idle", drip |-> 0, klass |-> "", shift |-> 0, cutoff |-> 0,
          target |-> <<>>, qs |-> <<>>, idx |-> 0, count |-> 0, ret |-> RetUnset]

\* settings.DRIP_MESSAGE_CLASSES with its 'default' entry
configured_message_classes == {"default"}

\* a prune that compares the date the wrong way round (date__gt)
exclude_user_ids_DateGt(d, target, cutoff) ==
    {sentdrips[i].user : i \in {j \in 1..Len(sentdrips) :
        /\ sentdrips[j].date > cutoff
        /\ sentdrips[j].drip = d
        /\ sentdrips[j].user \in Range(target)}}

\* a prune that takes the SentDrip rows of every drip
exclude_user_ids_AnyDrip(d, target, cutoff) ==
    {sentdrips[i].user : i \in {j \in 1..Len(sentdrips) :
        /\ sentdrips[j].date < cutoff
        /\ sentdrips[j].user \in Range(target)}}

\* the user ids prune excludes: SentDrip rows of this drip, dated before the
\* cutoff, of users of the target queryset
exclude_user_ids(d, target, cutoff) ==
    {sentdrips[i].user : i \in {j \in 1..Len(sentdrips) :
        /\ sentdrips[j].date < cutoff
        /\ sentdrips[j].drip = d
        /\ sentdrips[j].user \in Range(target)}}

\* a prune that excludes whoever has a SentDrip row of any drip
prune_AnyDrip(d, target, cutoff) ==
    SelectSeq(target, LAMBDA u: u \notin exclude_user_ids_AnyDrip(d, target, cutoff))

\* DripBase.prune(): the queryset send() iterates
prune(d, target, cutoff) ==
    SelectSeq(target, LAMBDA u: u \notin exclude_user_ids(d, target, cutoff))

\* what message.send() can do for user u: a truthy count, 0, or an exception;
\* EmailMessage.send() returns 0 for a message without recipients
SendResults(u) ==
    IF UserEmail(u).kind = "empty" THEN {"zero", "raise"}
    ELSE {"sent", "zero", "raise"}

\* a run() without its enabled check
run_disabled_Never(d) == FALSE

\* `if not self.drip_model.enabled: return None`
run_disabled(d) == ~drips[d].enabled

\* run(): the enabled check, prune() and the head of send().  A queryset is
\* lazy, but no SentDrip row dated before the cutoff can appear after the
\* cutoff was read, so the pruned rows are those of this instant.
RunStart(d, klass, shift) ==
    /\ nextRun <= MaxRuns
    /\ LET r == nextRun
           target == get_queryset(d, shift)
           base == [NoRun EXCEPT !.drip = d, !.klass = klass, !.shift = shift]
       IN  runs' = [runs EXCEPT ![r] =
             IF run_disabled(d)
               THEN [base EXCEPT !.pc = "done", !.ret = RetNone]
             ELSE IF klass = "DripBase"
                     /\ drips[d].message_class \notin configured_message_classes
               THEN [base EXCEPT !.pc = "done", !.ret = RetRaised,
                                 !.cutoff = clock, !.target = target,
                                 !.qs = prune(d, target, clock)]
             ELSE [base EXCEPT !.pc = IF klass = "DripBase" THEN "send" ELSE "batch",
                               !.cutoff = clock, !.target = target,
                               !.qs = prune(d, target, clock), !.idx = 1]]
    /\ nextRun' = nextRun + 1
    /\ UNCHANGED <<clock, drips, userRows, serious, sentdrips, mails, sb,
                   sbInput, posts, sel, wk, msg, call>>

\* a call of run() made while no other call is in progress
Run(d, klass, shift) ==
    /\ \A r \in RunIds : runs[r].pc \in {"idle", "done"}
    /\ RunStart(d, klass, shift)

\* a send() that records whatever message.send() gave
ShouldRecord_Always(res) == TRUE

\* `if result:` -- only a truthy result of message.send() is recorded
ShouldRecord(res) == res = "sent"

\* a loop without its try/except: what is raised ends send() and run()
send_step_Abort(run, res, created) ==
    IF res = "raise" \/ ~created
      THEN [run EXCEPT !.pc = "done", !.ret = RetRaised]
      ELSE IF res = "sent"
        THEN [run EXCEPT !.idx = @ + 1, !.count = @ + 1]
        ELSE [run EXCEPT !.idx = @ + 1]

\* the run after one turn of the loop of DripBase.send: the except clause
\* logs whatever was raised and the loop goes on with the next user
send_step(run, res, created) ==
    IF ShouldRecord(res) /\ created
      THEN [run EXCEPT !.idx = @ + 1, !.count = @ + 1]
      ELSE [run EXCEPT !.idx = @ + 1]

\* the row SentDrip.objects.create(...) writes: date is auto_now_add, subject
\* the rendered subject of the drip, from_email the address send() settled on
SentDrip(d, u, t, r) ==
    [drip |-> d, user |-> u, date |-> t, subject |-> <<"subject", d>>,
     from_email |-> "DRIP_FROM_EMAIL", run |-> r]

\* a create that writes over the rows of the table
objects_create_Replace(table, row) == <<row>>

\* SentDrip.objects.create: an INSERT, the rows of the table stay
objects_create(table, row) == Append(table, row)

\* one turn of the loop of DripBase.send: message.send(), then on a truthy
\* result SentDrip.objects.create(...), which may raise as well
SendUser(r) ==
    /\ runs[r].pc = "send"
    /\ runs[r].idx <= Len(runs[r].qs)
    /\ LET u == runs[r].qs[runs[r].idx]
           d == runs[r].drip
       IN  \E res \in SendResults(u), created \in BOOLEAN :
             /\ (res # "sent") => created
             /\ mails' = Append(mails, [run |-> r, drip |-> d, user |-> u,
                                        result |-> res, at |-> clock])
             /\ sentdrips' = IF ShouldRecord(res) /\ created
                               THEN objects_create(sentdrips, SentDrip(d, u, clock, r))
                               ELSE sentdrips
             /\ runs' = [runs EXCEPT ![r] = send_step(runs[r], res, created)]
    /\ UNCHANGED <<clock, drips, userRows, serious, nextRun, sb, sbInput,
                   posts, sel, wk, msg, call>>

\* the end of the loop: send() returns count and run() returns it
SendReturn(r) ==
    /\ runs[r].pc = "send"
    /\ runs[r].idx > Len(runs[r].qs)
    /\ runs' = [runs EXCEPT ![r].pc = "done", ![r].ret = Ret("int", runs[r].count)]
    /\ UNCHANGED <<clock, drips, userRows, serious, sentdrips, nextRun, mails,
                   sb, sbInput, posts, sel, wk, msg, call>>

\* the wall clock advances
Tick ==
    /\ clock < MaxClock
    /\ clock' = clock + 1
    /\ UNCHANGED <<drips, userRows, serious, sentdrips, runs, nextRun, mails,
                   sb, sbInput, posts, sel, wk, msg, call>>

(***************************************************************************)
(* MailgunBatchMessage: the variables of one recipient (drip/drips.py).    *)
(***************************************************************************)
\* DripMailgun.variables
variables == <<"full_name", "text">>

\* getattr(user, v, None): has is FALSE when the user has no such attribute
UserAttr(u, v) ==
    CASE v = "full_name" -> [has |-> TRUE, val |-> IF u % 2 = 1 THEN "name" ELSE ""]
      [] OTHER -> [has |-> FALSE, val |-> ""]

\* getattr(self, 'get_var_' + v, None): MailgunBatchMessage defines get_var_text
HasAccessor(v) == v = "text"
Accessor(u, v) == "This is text from message instance"

\* the values `if not obj` takes for false; "None" is getattr's default
Falsy(val) == val \in {"None", "", "0", "False"}

\* get_value(v) never raising
get_value_on_Lenient(a, hasAccessor, accessed, v, strict) ==
    LET obj == IF a.has THEN a.val ELSE "None"
    IN  IF Falsy(obj)
          THEN IF hasAccessor THEN [err |-> FALSE, name |-> "", val |-> accessed]
               ELSE [err |-> FALSE, name |-> "", val |-> ""]
          ELSE [err |-> FALSE, name |-> "", val |-> obj]

\* get_value(v) for a recipient whose attribute v is a and a message whose
\* get_var_v exists or not: [err, name, val], name the variable the
\* ValueError is formatted with
get_value_on(a, hasAccessor, accessed, v, strict) ==
    LET obj == IF a.has THEN a.val ELSE "None"
    IN  IF Falsy(obj)
          THEN IF hasAccessor THEN [err |-> FALSE, name |-> "", val |-> accessed]
               ELSE IF strict THEN [err |-> TRUE, name |-> v, val |-> ""]
               ELSE [err |-> FALSE, name |-> "", val |-> ""]
          ELSE [err |-> FALSE, name |-> "", val |-> obj]

get_value(u, v, strict) ==
    get_value_on(UserAttr(u, v), HasAccessor(v), Accessor(u, v), v, strict)

\* the dict comprehension over self.variables, given get_value's results: the
\* first get_value that raises ends it, and no dict is built
variables_dict(vals) ==
    LET failing == {i \in 1..Len(variables) : vals[i].err}
    IN  IF failing = {}
          THEN [err |-> FALSE, name |-> "",
                vars |-> [i \in 1..Len(variables) |-> vals[i].val]]
          ELSE [err |-> TRUE,
                name |-> vals[CHOOSE i \in failing :
                                 \A j \in failing : i <= j].name,
                vars |-> <<>>]

mailgun_variables_for_user(u, strict) ==
    variables_dict([i \in 1..Len(variables) |-> get_value(u, variables[i], strict)])

\* get_variables: one entry per user of qs that has an email, in qs order
get_variables(qs, strict) ==
    LET withmail == SelectSeq(qs, LAMBDA u: UserEmail(u).kind # "empty")
    IN  [err |-> \E i \in 1..Len(withmail) :
                    mailgun_variables_for_user(withmail[i], strict).err,
         items |-> [i \in 1..Len(withmail) |->
                    [email |-> UserEmail(withmail[i]), isdict |-> TRUE,
                     vars |-> mailgun_variables_for_user(withmail[i], strict).vars]]]

(***************************************************************************)
(* mailgun.send_batch (drip/mailgun.py).                                   *)
(***************************************************************************)
\* settings.MAILGUN['BATCHSIZE'] of the modelled deployment
MAILGUN_BATCHSIZE == 2

NoBatch == [pc |-> "none", caller |-> 0, items |-> <<>>, size |-> 0,
            real |-> FALSE, start |-> 0, responses |-> <<>>, ret |-> "unset"]

Min(a, b) == IF a < b THEN a ELSE b

\* validate_email(email)
validate_email(email) == email.kind = "ok"

\* validations that look at the first entry only
Validations_FirstEntry(items, url_ok) ==
    /\ \A i \in 1..Min(1, Len(items)) :
          validate_email(items[i].email) /\ items[i].isdict
    /\ url_ok

\* the validations of send_batch: TRUE when none of them raises
Validations(items, url_ok) ==
    /\ \A i \in 1..Len(items) : validate_email(items[i].email) /\ items[i].isdict
    /\ url_ok

\* the state of a call of send_batch after its validations
send_batch_begin(caller, items, size, url_ok, real) ==
    IF Validations(items, url_ok)
      THEN [NoBatch EXCEPT !.pc = "post", !.caller = caller, !.items = items,
                           !.size = size, !.real = real]
      ELSE [NoBatch EXCEPT !.pc = "done", !.caller = caller, !.items = items,
                           !.size = size, !.real = real, !.ret = "raised"]

\* chunks(xs, size): the chunk that starts at the 0-based index start
Chunk(xs, start, size) == SubSeq(xs, start + 1, Min(start + size, Len(xs)))

\* what run() of a DripMailgun returns once send_batch has ended
BatchCallerDone(running, c, raised) ==
    IF c = 0 THEN running
    ELSE [running EXCEPT ![c].pc = "done",
                         ![c].ret = IF raised THEN RetRaised ELSE RetNone]

\* DripMailgun.send up to the first post: the message, get_variables and the
\* validations of send_batch
MailgunSend(r) ==
    /\ runs[r].pc = "batch"
    /\ sb.pc \in {"none", "done"}
    /\ LET gv == get_variables(runs[r].qs, ~serious)
           begun == send_batch_begin(r, gv.items, MAILGUN_BATCHSIZE, TRUE, serious)
       IN  IF gv.err
             THEN /\ runs' = [runs EXCEPT ![r].pc = "done", ![r].ret = RetRaised]
                  /\ sb' = sb
             ELSE /\ sb' = begun
                  /\ runs' = IF begun.pc = "done"
                               THEN BatchCallerDone(runs, r, TRUE)
                               ELSE [runs EXCEPT ![r].pc = "posting"]
    /\ UNCHANGED <<clock, drips, userRows, serious, sentdrips, nextRun, mails,
                   sbInput, posts, sel, wk, msg, call>>

\* one turn of the loop of send_batch: the post of one chunk.  mock_post
\* returns its arguments; requests.post returns a response or raises.
SendBatchPost ==
    /\ sb.pc = "post"
    /\ sb.size > 0
    /\ sb.start < Len(sb.items)
    /\ LET chunk == Chunk(sb.items, sb.start, sb.size)
           recipient_list == [i \in 1..Len(chunk) |-> chunk[i].email]
           recipient_variables == Range(chunk)
       IN  \E res \in (IF sb.real THEN {"ok", "raise"} ELSE {"ok"}) :
             /\ posts' = Append(posts,
                    [caller |-> sb.caller, to |-> recipient_list,
                     vars |-> recipient_variables, real |-> sb.real,
                     result |-> res, at |-> clock])
             /\ IF res = "ok"
                  THEN /\ sb' = [sb EXCEPT !.start = @ + sb.size,
                                           !.responses = Append(@, Len(posts) + 1)]
                       /\ runs' = runs
                  ELSE /\ sb' = [sb EXCEPT !.pc = "done", !.ret = "raised"]
                       /\ runs' = BatchCallerDone(runs, sb.caller, TRUE)
    /\ UNCHANGED <<clock, drips, userRows, serious, sentdrips, nextRun, mails,
                   sbInput, sel, wk, msg, call>>

\* the end of the loop: range(0, len(xs), 0) raises ValueError, a negative
\* step gives no chunk at all; otherwise the responses are returned
SendBatchReturn ==
    /\ sb.pc = "post"
    /\ (sb.size <= 0 \/ sb.start >= Len(sb.items))
    /\ sb' = [sb EXCEPT !.pc = "done",
                        !.ret = IF sb.size = 0 THEN "raised" ELSE "list"]
    /\ runs' = BatchCallerDone(runs, sb.caller, sb.size = 0)
    /\ UNCHANGED <<clock, drips, userRows, serious, sentdrips, nextRun, mails,
                   sbInput, posts, sel, wk, msg, call>>

(***************************************************************************)
(* The specification of the runs: campaigns are run one call after the     *)
(* other, as DripQueryset.send does, over a clock that advances freely.    *)
(***************************************************************************)
Rule(m, f, l, v) ==
    [method_type |-> m, field_name |-> f, lookup_type |-> l, field_value |-> v]

\* the queryset_rules of the campaigns that are run: odd drips have none,
\* even drips exclude the users with a = 1
RunRules(d) ==
    IF d % 2 = 1 THEN <<>> ELSE <<Rule("exclude", "a", "exact", <<"1">>)>>

DripRow(enabled, message_class, rules) ==
    [enabled |-> enabled, message_class |-> message_class, rules |-> rules]

NoSel == [done |-> FALSE, drip |-> 0, shift |-> 0, now |-> 0, qs |-> <<>>]
NoWalk == [done |-> FALSE, past |-> 0, future |-> 0, out |-> <<>>]
NoMsg == [done |-> FALSE, template |-> <<>>, user |-> 0, body |-> <<>>,
          plain |-> <<>>, content |-> <<>>, alternatives |-> <<>>]
NoCall == [fn |-> "none"]
NoInput == [pending |-> FALSE, items |-> <<>>, size |-> 0, url_ok |-> TRUE,
            real |-> FALSE]

Klasses == {"DripBase", "DripMailgun"}
RunShifts == {0}

Init ==
    /\ clock = 0
    /\ \E en \in [Drips -> BOOLEAN] :
         drips = [d \in Drips |-> DripRow(en[d], "default", RunRules(d))]
    /\ userRows = AllUsers
    /\ serious \in BOOLEAN
    /\ sentdrips = <<>>
    /\ runs = [r \in RunIds |-> NoRun]
    /\ nextRun = 1
    /\ mails = <<>>
    /\ sb = NoBatch
    /\ sbInput = NoInput
    /\ posts = <<>>
    /\ sel = NoSel
    /\ wk = NoWalk
    /\ msg = NoMsg
    /\ call = NoCall

Next ==
    \/ \E d \in Drips, k \in Klasses, s \in RunShifts : Run(d, k, s)
    \/ \E r \in RunIds : SendUser(r)
    \/ \E r \in RunIds : SendReturn(r)
    \/ \E r \in RunIds : MailgunSend(r)
    \/ SendBatchPost
    \/ SendBatchReturn
    \/ Tick

Spec == Init /\ [][Next]_vars

(***************************************************************************)
(* Properties of the runs.                                                 *)
(***************************************************************************)
MailIdx == 1..Len(mails)
PostIdx == 1..Len(posts)
SentIdx == 1..Len(sentdrips)

\* run r handed a message for user u to the transport
Mailed(r, u) == \E k \in MailIdx : mails[k].run = r /\ mails[k].user = u
Posted(r, u) ==
    \E k \in PostIdx : posts[k].caller = r /\ UserEmail(u) \in Range(posts[k].to)
\* run r created a SentDrip for user u
Recorded(r, u) ==
    \E i \in SentIdx : sentdrips[i].run = r /\ sentdrips[i].user = u

\* the SentDrip rows of drip d and user u dated before instant t
RecordedBefore(d, u, t) ==
    \E i \in SentIdx : /\ sentdrips[i].drip = d
                       /\ sentdrips[i].user = u
                       /\ sentdrips[i].date < t

\* run r passed the enabled check and read its evaluation instant
Evaluated(r) == runs[r].pc # "idle" /\ drips[runs[r].drip].enabled

\* C1: a recipient with a SentDrip of the campaign dated before the run's
\* evaluation instant is not in the pruned queryset of the run, is sent
\* nothing by the run (message or batch post) and gets no SentDrip from it.
C1_RecordedNeverReselected ==
    \A r \in RunIds, u \in Users :
        (Evaluated(r) /\ RecordedBefore(runs[r].drip, u, runs[r].cutoff))
            => /\ u \notin Range(runs[r].qs)
               /\ ~Mailed(r, u)
               /\ ~Posted(r, u)
               /\ ~Recorded(r, u)

\* a later run, finished, that sent to others while a selected user with an
\* earlier record was left out
C1_Witness ==
    \E r \in RunIds, u \in Users :
        /\ runs[r].pc = "done" /\ Evaluated(r)
        /\ RecordedBefore(runs[r].drip, u, runs[r].cutoff)
        /\ u \in Range(runs[r].target)
        /\ \E v \in Users : v # u /\ (Mailed(r, v) \/ Posted(r, v))

\* run r delivered the campaign's message to user u: message.send() was
\* truthy, or a real post carrying the user's address returned
Delivered(r, u) ==
    \/ \E k \in MailIdx : /\ mails[k].run = r /\ mails[k].user = u
                          /\ mails[k].result = "sent"
    \/ \E k \in PostIdx : /\ posts[k].caller = r /\ posts[k].real
                          /\ posts[k].result = "ok"
                          /\ UserEmail(u) \in Range(posts[k].to)

\* the instants at which run r delivered to user u
DeliveredAt(r, u) ==
    {mails[k].at : k \in {j \in MailIdx : /\ mails[j].run = r /\ mails[j].user = u
                                          /\ mails[j].result = "sent"}}
    \cup {posts[k].at : k \in {j \in PostIdx : /\ posts[j].caller = r
                                               /\ posts[j].real
                                               /\ posts[j].result = "ok"
                                               /\ UserEmail(u) \in Range(posts[j].to)}}

\* C2: over a sequence of runs of one campaign, in either variant, a run
\* that starts at a later instant than a completed run delivered to a
\* recipient does not deliver to that recipient again.
C2_NoResendAcrossRuns ==
    \A r1, r2 \in RunIds, u \in Users :
        (/\ r1 < r2
         /\ runs[r1].pc = "done" /\ runs[r2].pc # "idle"
         /\ runs[r1].drip = runs[r2].drip
         /\ \E t \in DeliveredAt(r1, u) : t < runs[r2].cutoff)
            => ~Delivered(r2, u)

\* C3: in DripBase.send a SentDrip of a run exists only for a recipient whose
\* message.send() in that run was truthy; a falsy or raising send leaves
\* no SentDrip of that run.
C3_RecordOnlyAfterConfirmedSend ==
    /\ \A i \in SentIdx :
          \E k \in MailIdx : /\ mails[k].run = sentdrips[i].run
                             /\ mails[k].user = sentdrips[i].user
                             /\ mails[k].drip = sentdrips[i].drip
                             /\ mails[k].result = "sent"
    /\ \A k \in MailIdx :
          mails[k].result \in {"zero", "raise"}
              => ~Recorded(mails[k].run, mails[k].user)

\* a finished run with a recorded send, a falsy send and a raising send
C3_Witness ==
    \E r \in RunIds :
        /\ runs[r].pc = "done"
        /\ \E u \in Users : Recorded(r, u)
        /\ \E k \in MailIdx : mails[k].run = r /\ mails[k].result = "zero"
        /\ \E k \in MailIdx : mails[k].run = r /\ mails[k].result = "raise"

\* run r is a call of DripBase.run that got into the loop of send()
DirectRun(r) ==
    /\ runs[r].klass = "DripBase"
    /\ Evaluated(r)
    /\ drips[runs[r].drip].message_class \in configured_message_classes

\* C4: a raising send does not stop the loop of DripBase.send: the finished
\* run returned a count, attempted a send for every user of the pruned
\* queryset, left the failed users without SentDrip, and its count is the
\* number of SentDrips it created.
C4_FailureDoesNotStopLoop ==
    \A r \in RunIds :
        (DirectRun(r) /\ runs[r].pc = "done")
            => /\ runs[r].ret.kind = "int"
               /\ {u \in Users : Mailed(r, u)} = Range(runs[r].qs)
               /\ \A k \in MailIdx :
                     (mails[k].run = r /\ mails[k].result = "raise")
                         => ~Recorded(r, mails[k].user)
               /\ runs[r].ret.n = Cardinality({i \in SentIdx : sentdrips[i].run = r})

\* a finished run whose first send raised and a later one was recorded
C4_Witness ==
    \E r \in RunIds :
        /\ DirectRun(r) /\ runs[r].pc = "done"
        /\ \E k1, k2 \in MailIdx :
              /\ k1 < k2
              /\ mails[k1].run = r /\ mails[k1].result = "raise"
              /\ mails[k2].run = r /\ mails[k2].result = "sent"
              /\ Recorded(r, mails[k2].user)

\* run r made no store write and no transport call
NoEffect(r) ==
    /\ \A i \in SentIdx : sentdrips[i].run # r
    /\ \A k \in MailIdx : mails[k].run # r
    /\ \A k \in PostIdx : posts[k].caller # r

RuleUniverse ==
    {Rule(m, "a", "exact", <<v>>) : m \in METHOD_TYPES, v \in {"1", "2"}}
    \cup {Rule(m, "b", "exact", <<"2">>) : m \in METHOD_TYPES}
    \cup {Rule(m, "joined", "lte", <<"now-", "1">>) : m \in METHOD_TYPES}

RuleLists == UNION {[1..n -> RuleUniverse] : n \in 0..MaxRules}

\* DripBase.queryset() is user defined: User.objects, or a queryset that
\* yields the row of one user twice (a join)
BaseRows == {AllUsers} \cup {Append(AllUsers, u) : u \in Users}

SelectShifts == {-1, 0, 1}

InitSelect ==
    /\ clock \in 0..MaxClock
    /\ \E rl \in RuleLists :
         drips = [d \in Drips |-> DripRow(TRUE, "default",
                                          IF d = 1 THEN rl ELSE RunRules(d))]
    /\ userRows \in BaseRows
    /\ serious = FALSE
    /\ sentdrips = <<>>
    /\ runs = [r \in RunIds |-> NoRun]
    /\ nextRun = 1
    /\ mails = <<>>
    /\ sb = NoBatch
    /\ sbInput = NoInput
    /\ posts = <<>>
    /\ sel = NoSel
    /\ wk = NoWalk
    /\ msg = NoMsg
    /\ call = NoCall

\* a call of get_queryset() on an instance of drip d shifted by shift days
GetQueryset(d, shift) ==
    /\ ~sel.done
    /\ sel' = [done |-> TRUE, drip |-> d, shift |-> shift, now |-> now(shift),
               qs |-> get_queryset(d, shift)]
    /\ UNCHANGED <<clock, drips, userRows, serious, sentdrips, runs, nextRun,
                   mails, sb, sbInput, posts, wk, msg, call>>

NextSelect == \E d \in Drips, s \in SelectShifts : GetQueryset(d, s)

SpecSelect == InitSelect /\ [][NextSelect]_vars

\* rule matches the row of user u, for an instance whose now() is t
RuleMatches(rule, u, t) == Q(filter_kwargs(rule, t), u)

SelRules == drips[sel.drip].rules
SelExcludes == {i \in 1..Len(SelRules) : SelRules[i].method_type = "exclude"}
SelFilters == {i \in 1..Len(SelRules) : SelRules[i].method_type = "filter"}

\* C6: exclude rules are unioned: a recipient that matches at least one
\* exclude rule is absent from the selected queryset, also when it does not
\* match the other exclude rules.
C6_ExcludesAreUnioned ==
    sel.done =>
        \A u \in Users :
            (\E i \in SelExcludes : RuleMatches(SelRules[i], u, sel.now))
                => u \notin Range(sel.qs)

\* two exclude rules, a user that matches exactly one of them, and another
\* user that stays selected
C6_Witness ==
    /\ sel.done
    /\ \E i, j \in SelExcludes, u \in Range(userRows) :
          /\ i # j
          /\ RuleMatches(SelRules[i], u, sel.now)
          /\ ~RuleMatches(SelRules[j], u, sel.now)
          /\ u \notin Range(sel.qs)
    /\ sel.qs # <<>>

\* C7: the selected queryset is exactly the recipients that satisfy every
\* filter rule and no exclude rule, each of them once.
C7_SelectedExactly ==
    sel.done =>
        /\ Range(sel.qs) =
             {u \in Range(userRows) :
                /\ \A i \in SelFilters : RuleMatches(SelRules[i], u, sel.now)
                /\ \A i \in SelExcludes : ~RuleMatches(SelRules[i], u, sel.now)}
        /\ \A i, j \in 1..Len(sel.qs) : i # j => sel.qs[i] # sel.qs[j]

\* two filter rules, a user that fails exactly one of them, and a selected
\* user whose row the recipient queryset yields twice
C7_Witness ==
    /\ sel.done
    /\ \E i, j \in SelFilters, u \in Range(userRows) :
          /\ i # j
          /\ RuleMatches(SelRules[i], u, sel.now)
          /\ ~RuleMatches(SelRules[j], u, sel.now)
    /\ \E i, j \in 1..Len(userRows) :
          i # j /\ userRows[i] = userRows[j] /\ userRows[i] \in Range(sel.qs)

(***************************************************************************)
(* DripBase.__init__ and DripBase.walk (drip/drips.py).  An instance is a  *)
(* record of its attributes; "None" is Python's None and Missing a keyword *)
(* argument that was not passed.                                           *)
(***************************************************************************)
Missing == "<missing>"

\* the class attributes of DripBase, which DripMailgun inherits
ClassAttr(klass, attr) == "None"

\* kwargs.pop(attr, self.attr)
Pop(klass, kw, attr) == IF kw[attr] = Missing THEN ClassAttr(klass, attr) ELSE kw[attr]

\* DripBase.__init__(drip_model, **kwargs)
DripBase_init(klass, drip_model, kw, shift) ==
    [klass |-> klass,
     drip_model |-> drip_model,
     name |-> Pop(klass, kw, "name"),
     from_email |-> Pop(klass, kw, "from_email"),
     from_email_name |-> Pop(klass, kw, "from_email_name"),
     subject_template |-> Pop(klass, kw, "subject_template"),
     body_template |-> Pop(klass, kw, "body_template"),
     shift |-> shift]

\* the kwargs walk passes besides drip_model and now_shift_kwargs
WalkKwargs(self) ==
    [name |-> self.name, from_email |-> Missing, from_email_name |-> Missing,
     subject_template |-> Missing, body_template |-> Missing]

\* range(-into_past, into_future) has this many elements
RangeLen(into_past, into_future) ==
    IF into_past + into_future > 0 THEN into_past + into_future ELSE 0

\* DripBase.walk(into_past, into_future)
walk(self, into_past, into_future) ==
    [i \in 1..RangeLen(into_past, into_future) |->
        DripBase_init(self.klass, self.drip_model, WalkKwargs(self),
                      -into_past + (i - 1))]

\* Drip.init_drip: an empty field of the Drip row is passed as None
AttrValues == {"None", "set"}
InitDripKwargs ==
    {[name |-> "welcome", from_email |-> fe, from_email_name |-> fn,
      subject_template |-> st, body_template |-> bt] :
        fe \in AttrValues, fn \in AttrValues, st \in AttrValues, bt \in AttrValues}

\* the instances walk is called on: Drip.drip, Drip.drip_mailgun (no shift) or
\* an instance that was itself produced with a shift
SourceInstances ==
    {DripBase_init(k, d, kw, sh) :
        k \in Klasses, d \in Drips, kw \in InitDripKwargs, sh \in {0, 1}}

InitWalk ==
    /\ clock = 0
    /\ drips = [d \in Drips |-> DripRow(TRUE, "default", RunRules(d))]
    /\ userRows = AllUsers
    /\ serious = FALSE
    /\ sentdrips = <<>>
    /\ runs = [r \in RunIds |-> NoRun]
    /\ nextRun = 1
    /\ mails = <<>>
    /\ sb = NoBatch
    /\ sbInput = NoInput
    /\ posts = <<>>
    /\ sel = NoSel
    /\ wk = NoWalk
    /\ msg = NoMsg
    /\ call = NoCall

\* a call of walk on some instance
Walk(self, p, f) ==
    /\ ~wk.done
    /\ wk' = [done |-> TRUE, src |-> self, past |-> p, future |-> f,
              out |-> walk(self, p, f)]
    /\ UNCHANGED <<clock, drips, userRows, serious, sentdrips, runs, nextRun,
                   mails, sb, sbInput, posts, sel, msg, call>>

NextWalk ==
    \E self \in SourceInstances, p \in 0..MaxWalk, f \in 0..MaxWalk : Walk(self, p, f)

SpecWalk == InitWalk /\ [][NextWalk]_vars

\* C8: walk(p, f) yields exactly p+f instances whose day offsets are
\* -p, -p+1, ..., f-1 in that order, each identical to the source instance
\* in every other attribute.
C8_WalkInstancesIdentical ==
    wk.done =>
        /\ Len(wk.out) = wk.past + wk.future
        /\ \A i \in 1..Len(wk.out) :
              wk.out[i] = [wk.src EXCEPT !.shift = -wk.past + (i - 1)]

(***************************************************************************)
(* DripMessage: body, plain and message (drip/drips.py).  A template and a *)
(* rendered text are sequences of characters; the token "{{user}}" of a    *)
(* template renders to one character of the user.                          *)
(***************************************************************************)
\* Template(...).render(Context({'user': user}))
Render(template, user) ==
    [i \in 1..Len(template) |-> IF template[i] = "{{user}}" THEN "u" ELSE template[i]]

\* the index of the first ">" of s after index i, or 0
NextClose(s, i) ==
    IF \E j \in (i + 1)..Len(s) : s[j] = ">"
      THEN CHOOSE j \in (i + 1)..Len(s) :
             s[j] = ">" /\ \A k \in (i + 1)..(j - 1) : s[k] # ">"
      ELSE 0

\* django.utils.html.strip_tags: every "<", up to the next ">", is removed
RECURSIVE strip_from(_, _)
strip_from(s, i) ==
    IF i > Len(s) THEN <<>>
    ELSE IF s[i] = "<" /\ NextClose(s, i) # 0
      THEN strip_from(s, NextClose(s, i) + 1)
      ELSE <<s[i]>> \o strip_from(s, i + 1)

strip_tags(s) == strip_from(s, 1)

\* a test for markup that looks for a "<" in the body
HasAlternative_AnyBracket(plain, body) == \E i \in 1..Len(body) : body[i] = "<"

\* `if len(self.plain) != len(self.body)`
HasAlternative(plain, body) == Len(plain) # Len(body)

\* DripMessage.message: the EmailMultiAlternatives of one user
message(template, user) ==
    LET body == Render(template, user)
        plain == strip_tags(body)
    IN  [done |-> TRUE, template |-> template, user |-> user,
         body |-> body, plain |-> plain, content |-> plain,
         alternatives |-> IF HasAlternative(plain, body)
                            THEN <<[content |-> body, mimetype |-> "text/html"]>>
                            ELSE <<>>]

BodyAlphabet == {"<", ">", "h", "{{user}}"}
BodyTemplates == UNION {[1..n -> BodyAlphabet] : n \in 0..MaxBody}

InitMessage ==
    /\ clock = 0
    /\ drips = [d \in Drips |-> DripRow(TRUE, "default", RunRules(d))]
    /\ userRows = AllUsers
    /\ serious = FALSE
    /\ sentdrips = <<>>
    /\ runs = [r \in RunIds |-> NoRun]
    /\ nextRun = 1
    /\ mails = <<>>
    /\ sb = NoBatch
    /\ sbInput = NoInput
    /\ posts = <<>>
    /\ sel = NoSel
    /\ wk = NoWalk
    /\ \E t \in BodyTemplates : msg = [NoMsg EXCEPT !.template = t]
    /\ call = NoCall

\* the message of user u is built from the body template
BuildMessage(u) ==
    /\ ~msg.done
    /\ msg' = message(msg.template, u)
    /\ UNCHANGED <<clock, drips, userRows, serious, sentdrips, runs, nextRun,
                   mails, sb, sbInput, posts, sel, wk, call>>

NextMessage == \E u \in Users : BuildMessage(u)

SpecMessage == InitMessage /\ [][NextMessage]_vars

\* C9: the message carries the HTML body as an alternative if and only if
\* the tag-stripped text and the rendered body differ in length; with equal
\* lengths it carries the plain text alone.
C9_AlternativeIffLengthsDiffer ==
    msg.done =>
        LET body == Render(msg.template, msg.user)
        IN  /\ msg.content = strip_tags(body)
            /\ (Len(strip_tags(body)) # Len(body))
                  => msg.alternatives = <<[content |-> body, mimetype |-> "text/html"]>>
            /\ (Len(strip_tags(body)) = Len(body)) => msg.alternatives = <<>>

\* a body with a tag and text: the plain text is shorter and the HTML body
\* is attached
C9_Witness ==
    /\ msg.done
    /\ msg.plain # <<>>
    /\ Len(msg.plain) < Len(msg.body)
    /\ Len(msg.alternatives) = 1

(***************************************************************************)
(* The specification of send_batch called on any arguments: a mapping with *)
(* valid and invalid addresses, mapping and scalar values, any batch size, *)
(* a valid or invalid url template, the mock or the real transport.        *)
(***************************************************************************)
\* a recipient-variables mapping of n entries, as the list of its items
BatchEntries(n) ==
    [1..n -> {[email |-> [kind |-> k, n |-> 0], isdict |-> b,
               vars |-> <<"name", "text">>] : k \in {"ok", "bad"}, b \in BOOLEAN}]

\* the keys of a mapping are distinct: entry i has the address number i
BatchItems ==
    UNION {{[i \in 1..n |-> [e[i] EXCEPT !.email.n = i]] : e \in BatchEntries(n)} :
              n \in 0..MaxItems}

BatchSizes == (-1)..MaxBatchSize

InitBatch ==
    /\ clock = 0
    /\ drips = [d \in Drips |-> DripRow(TRUE, "default", RunRules(d))]
    /\ userRows = AllUsers
    /\ serious = FALSE
    /\ sentdrips = <<>>
    /\ runs = [r \in RunIds |-> NoRun]
    /\ nextRun = 1
    /\ mails = <<>>
    /\ sb = NoBatch
    /\ \E it \in BatchItems, sz \in BatchSizes, u \in BOOLEAN, re \in BOOLEAN :
         sbInput = [pending |-> TRUE, items |-> it, size |-> sz, url_ok |-> u,
                    real |-> re]
    /\ posts = <<>>
    /\ sel = NoSel
    /\ wk = NoWalk
    /\ msg = NoMsg
    /\ call = NoCall

\* send_batch is called: its validations run before the loop
SendBatch ==
    /\ sbInput.pending
    /\ sb.pc = "none"
    /\ sb' = send_batch_begin(0, sbInput.items, sbInput.size, sbInput.url_ok,
                              sbInput.real)
    /\ sbInput' = [sbInput EXCEPT !.pending = FALSE]
    /\ UNCHANGED <<clock, drips, userRows, serious, sentdrips, runs, nextRun,
                   mails, posts, sel, wk, msg, call>>

NextBatch ==
    \/ SendBatch
    \/ SendBatchPost
    \/ SendBatchReturn

SpecBatch == InitBatch /\ [][NextBatch]_vars

\* ceil(n / b) for b >= 1
CeilDiv(n, b) == (n + b - 1) \div b

\* C10: for a valid mapping of n entries and a batch size b >= 1 a finished
\* send_batch issued exactly ceil(n/b) posts, each with at most b entries and
\* all but the last with exactly b; the chunks are pairwise disjoint, their
\* union is the mapping, and the recipient list of a post is the key set of
\* its recipient-variables block.
C10_ChunksPartitionMapping ==
    (/\ sb.pc = "done"
     /\ Validations(sb.items, sbInput.url_ok)
     /\ sb.size >= 1)
        => /\ Len(posts) = CeilDiv(Len(sb.items), sb.size)
           /\ \A k \in PostIdx :
                 /\ Cardinality(posts[k].vars) <= sb.size
                 /\ k < Len(posts) => Cardinality(posts[k].vars) = sb.size
                 /\ Range(posts[k].to) = {e.email : e \in posts[k].vars}
                 /\ Len(posts[k].to) = Cardinality(posts[k].vars)
           /\ \A k1, k2 \in PostIdx :
                 k1 # k2 => posts[k1].vars \cap posts[k2].vars = {}
           /\ UNION {posts[k].vars : k \in PostIdx} = Range(sb.items)

(***************************************************************************)
(* The specification of mailgun_variables_for_user called for any          *)
(* recipient and any message class: each declared variable is absent from  *)
(* the recipient or held with a false or a true value, the message class   *)
(* defines get_var_<name> or not, and the call is strict or lenient.       *)
(***************************************************************************)
\* everything but the clock and the call at rest
AtRest ==
    /\ drips = [d \in Drips |-> DripRow(TRUE, "default", RunRules(d))]
    /\ userRows = AllUsers
    /\ serious = FALSE
    /\ sentdrips = <<>>
    /\ runs = [r \in RunIds |-> NoRun]
    /\ nextRun = 1
    /\ mails = <<>>
    /\ sb = NoBatch
    /\ sbInput = NoInput
    /\ posts = <<>>
    /\ sel = NoSel
    /\ wk = NoWalk
    /\ msg = NoMsg

VarNames == Range(variables)

\* what getattr(user, v, None) may find
AttrStates ==
    {[has |-> FALSE, val |-> ""]}
        \cup {[has |-> TRUE, val |-> x] : x \in {"", "0", "False", "name"}}

InitVars ==
    /\ clock = 0
    /\ AtRest
    /\ \E at \in [VarNames -> AttrStates], ac \in SUBSET VarNames, st \in BOOLEAN :
         call = [fn |-> "mailgun_variables_for_user", done |-> FALSE,
                 attrs |-> at, accs |-> ac, strict |-> st,
                 out |-> [err |-> FALSE, name |-> "", vars |-> <<>>]]

\* a call of mailgun_variables_for_user(user, strict)
VariablesForUser ==
    /\ call.fn = "mailgun_variables_for_user"
    /\ ~call.done
    /\ call' = [call EXCEPT
                  !.done = TRUE,
                  !.out = variables_dict(
                      [i \in 1..Len(variables) |->
                          get_value_on(call.attrs[variables[i]],
                                       variables[i] \in call.accs,
                                       "accessed", variables[i], call.strict)])]
    /\ UNCHANGED <<clock, drips, userRows, serious, sentdrips, runs, nextRun,
                   mails, sb, sbInput, posts, sel, wk, msg>>

NextVars == VariablesForUser

SpecVars == InitVars /\ [][NextVars]_vars

VarsCalled == call.fn = "mailgun_variables_for_user" /\ call.done

\* the declared variables with neither a recipient attribute nor an accessor
MissingVars == {v \in VarNames : ~call.attrs[v].has /\ v \notin call.accs}

\* the declared variables with an accessor or an attribute that is not false
SuppliedVars ==
    {v \in VarNames : \/ v \in call.accs
                      \/ call.attrs[v].has /\ call.attrs[v].val = "name"}

C19_AttributeWinsWhenPresent ==
    VarsCalled
        => \A i \in 1..Len(variables) :
              call.attrs[variables[i]].has
                 => /\ ~(call.out.err /\ call.out.name = variables[i])
                    /\ ~call.out.err
                          => call.out.vars[i] = call.attrs[variables[i]].val

\* the entries of the mapping that the validations refuse
InvalidEntries(items) ==
    {i \in 1..Len(items) : items[i].email.kind # "ok" \/ ~items[i].isdict}

\* C12: a call of send_batch with a mapping that holds a value that is no
\* mapping or an address that is not valid, wherever it sits, makes no post
\* call and ends by raising.
C12_InvalidMappingNoPost ==
    (sb.pc # "none" /\ InvalidEntries(sb.items) # {})
        => /\ posts = <<>>
           /\ sb.pc = "done"
           /\ sb.ret = "raised"

C12_Witness ==
    /\ sb.pc = "done"
    /\ sb.ret = "raised"
    /\ sbInput.url_ok
    /\ sb.real
    /\ sb.size = 1
    /\ Len(sb.items) >= 3
    /\ InvalidEntries(sb.items) = {Len(sb.items)}
    /\ posts = <<>>

\* C13: a call of send_batch with a batch size of zero or less ends by
\* raising and makes no post call.
C13_NonPositiveSizeRejected ==
    (sb.pc = "done" /\ sb.size <= 0)
        => /\ sb.ret = "raised"
           /\ posts = <<>>

\* the posts made for the chunk number j (from 0) of the call
PostsOfChunk(j) ==
    {k \in PostIdx : posts[k].vars = Range(Chunk(sb.items, j * sb.size, sb.size))}

\* C14: when the post of a chunk raised, the finished call of send_batch has
\* still made a post for every chunk of the mapping, those after the failed
\* one included.
C14_ChunksIndependent ==
    (sb.pc = "done" /\ \E k \in PostIdx : posts[k].result = "raise")
        => \A j \in 0..(CeilDiv(Len(sb.items), sb.size) - 1) : PostsOfChunk(j) # {}

\* C15: a finished call of send_batch on a valid mapping with a batch size of
\* at least one returns a list with one entry per chunk, the i-th entry being
\* the outcome of the post of the i-th chunk.
C15_OneEntryPerChunkInOrder ==
    (/\ sb.pc = "done"
     /\ InvalidEntries(sb.items) = {}
     /\ sbInput.url_ok
     /\ sb.size >= 1)
        => /\ sb.ret = "list"
           /\ Len(sb.responses) = CeilDiv(Len(sb.items), sb.size)
           /\ \A i \in 1..Len(sb.responses) :
                 sb.responses[i] \in PostsOfChunk(i - 1)

\* C16: a finished run of an enabled campaign, through DripBase or through
\* DripMailgun, returned a count, and the count is the number of SentDrips the
\* run created; in particular the run did not end by raising.
C16_RunReturnsRecordCount ==
    \A r \in RunIds :
        (/\ runs[r].pc = "done"
         /\ drips[runs[r].drip].enabled
         /\ drips[runs[r].drip].message_class \in configured_message_classes)
            => /\ runs[r].ret.kind = "int"
               /\ runs[r].ret.n = Cardinality({i \in SentIdx : sentdrips[i].run = r})

(***************************************************************************)
(* The specification of the runs of enabled campaigns whose message_class  *)
(* is 'default' or a name settings.DRIP_MESSAGE_CLASSES does not hold.     *)
(***************************************************************************)
MessageClassNames == {"default", "unregistered"}

InitClasses ==
    /\ clock = 0
    /\ \E mc \in [Drips -> MessageClassNames] :
         drips = [d \in Drips |-> DripRow(TRUE, mc[d], RunRules(d))]
    /\ userRows = AllUsers
    /\ serious \in BOOLEAN
    /\ sentdrips = <<>>
    /\ runs = [r \in RunIds |-> NoRun]
    /\ nextRun = 1
    /\ mails = <<>>
    /\ sb = NoBatch
    /\ sbInput = NoInput
    /\ posts = <<>>
    /\ sel = NoSel
    /\ wk = NoWalk
    /\ msg = NoMsg
    /\ call = NoCall

SpecClasses == InitClasses /\ [][Next]_vars

\* C17: a run of an enabled campaign whose message_class is 'default' renders
\* per recipient (it makes no batch post); a run of an enabled campaign whose
\* message_class is not registered ends by raising, sends nothing and creates
\* no SentDrip.
C17_StrategyFromRegistry ==
    \A r \in RunIds :
        Evaluated(r)
            => IF drips[runs[r].drip].message_class = "default"
                 THEN \A k \in PostIdx : posts[k].caller # r
                 ELSE /\ runs[r].pc = "done"
                      /\ runs[r].ret = RetRaised
                      /\ NoEffect(r)

(***************************************************************************)
(* The specification of filter_kwargs called by apply_queryset_rules for   *)
(* one rule of an instance with any day shift, at any instant, on any raw  *)
(* field_value: a time expression, an F_ expression, a boolean, a literal. *)
(***************************************************************************)
TimePrefixes == {"now-", "now+", "today-", "today+"}
Durations == {"0", "1", "2", "3"}
FieldTokens == {"F_", "a", "True"}

RawValues ==
    {<<p, n>> : p \in TimePrefixes, n \in Durations}
    \cup {<<"F_">> \o t : t \in UNION {[1..n -> FieldTokens] : n \in 1..(MaxRaw - 1)}}
    \cup {<<"True">>, <<"False">>}
    \cup {<<"1">>, <<"a">>, <<"true">>, <<"a", "F_">>}

InitRule ==
    /\ clock \in 0..MaxClock
    /\ AtRest
    /\ \E fv \in RawValues, sh \in SelectShifts :
         call = [fn |-> "filter_kwargs", done |-> FALSE,
                 rule |-> Rule("filter", "joined", "lte", fv), shift |-> sh,
                 out |-> [field |-> "", lookup |-> "", value |-> Val("lit", 0, <<>>)]]

\* the turn of the loop of apply_queryset_rules that resolves the rule
ResolveRule ==
    /\ call.fn = "filter_kwargs"
    /\ ~call.done
    /\ call' = [call EXCEPT !.done = TRUE,
                            !.out = rule_kwargs(call.rule, call.shift)]
    /\ UNCHANGED <<clock, drips, userRows, serious, sentdrips, runs, nextRun,
                   mails, sb, sbInput, posts, sel, wk, msg>>

NextRule == ResolveRule

SpecRule == InitRule /\ [][NextRule]_vars

RuleResolved == call.fn = "filter_kwargs" /\ call.done

\* wall-clock now plus the day offset of the instance
EffectiveNow == clock + call.shift * TicksPerDay

\* C18: on an instance with day offset d, now-D and now+D resolve to the
\* effective now (the clock plus d days) minus and plus D days, today-D and
\* today+D to the date of the effective now minus and plus D days.
C18_ResolvesAgainstEffectiveNow ==
    (RuleResolved /\ call.rule.field_value[1] \in TimePrefixes)
        => LET p == call.rule.field_value[1]
               D == LitNum(Tail(call.rule.field_value))
           IN  call.out.value =
                 CASE p = "now-" ->
                        Val("datetime", EffectiveNow - D * TicksPerDay, <<>>)
                   [] p = "now+" ->
                        Val("datetime", EffectiveNow + D * TicksPerDay, <<>>)
                   [] p = "today-" ->
                        Val("date", (EffectiveNow \div TicksPerDay) - D, <<>>)
                   [] p = "today+" ->
                        Val("date", (EffectiveNow \div TicksPerDay) + D, <<>>)

\* a rule of an instance shifted one day back resolved to a date that is
\* not the one the unshifted clock gives
C18_Witness ==
    /\ RuleResolved
    /\ call.shift = -1
    /\ clock = 1
    /\ call.rule.field_value = <<"today-", "1">>
    /\ call.out.value = Val("date", -2, <<>>)

\* the value the stated precedence gives for a raw value
Precedence(fv, t) ==
    IF fv[1] = "now-" THEN Val("datetime", t - parse(Tail(fv)), <<>>)
    ELSE IF fv[1] = "now+" THEN Val("datetime", t + parse(Tail(fv)), <<>>)
    ELSE IF fv[1] = "today-" THEN Val("date", date(t) - date(parse(Tail(fv))), <<>>)
    ELSE IF fv[1] = "today+" THEN Val("date", date(t) + date(parse(Tail(fv))), <<>>)
    ELSE IF fv[1] = "F_" THEN Val("F", 0, Tail(fv))
    ELSE IF fv = <<"True">> THEN Val("bool", 1, <<>>)
    ELSE IF fv = <<"False">> THEN Val("bool", 0, <<>>)
    ELSE Val("lit", 0, fv)

\* C20: filter_kwargs resolves a raw value by precedence: a time prefix gives
\* the time relative to the effective now from the duration after the prefix;
\* else F_ followed by s gives a reference to the field named exactly s; else
\* True and False give the booleans; else the value stays the literal.
C20_ResolvedByPrecedence ==
    RuleResolved
        => /\ call.out.field = call.rule.field_name
           /\ call.out.lookup = call.rule.lookup_type
           /\ call.out.value = Precedence(call.rule.field_value, EffectiveNow)

(***************************************************************************)
(* The specification of prune: a run of any campaign, of any day shift, at *)
(* any instant, on a SentDrip table that already holds rows of any         *)
(* campaign and user, dated up to that instant in creation order.          *)
(***************************************************************************)
\* campaign 1 selects by a time-relative rule, so its selection moves with
\* the day shift
PruneRules(d) ==
    IF d = 1 THEN <<Rule("filter", "joined", "lte", <<"now-", "0">>)>>
    ELSE RunRules(d)

\* the SentDrip tables of up to MaxSent rows: date is auto_now_add, so the
\* rows are in date order and none is dated after the clock
SentTables(t) ==
    LET rows == {SentDrip(d, u, dt, 0) : d \in Drips, u \in Users, dt \in 0..t}
        later(tb) == {w \in rows : Len(tb) = 0 \/ tb[Len(tb)].date <= w.date}
        T[n \in 0..MaxSent] ==
            IF n = 0 THEN {<<>>}
            ELSE UNION {{Append(tb, w) : w \in later(tb)} : tb \in T[n - 1]}
    IN  UNION {T[n] : n \in 0..MaxSent}

InitPrune ==
    /\ clock \in 0..MaxClock
    /\ drips = [d \in Drips |-> DripRow(TRUE, "default", PruneRules(d))]
    /\ userRows = AllUsers
    /\ serious = FALSE
    /\ sentdrips \in SentTables(clock)
    /\ runs = [r \in RunIds |-> NoRun]
    /\ nextRun = 1
    /\ mails = <<>>
    /\ sb = NoBatch
    /\ sbInput = NoInput
    /\ posts = <<>>
    /\ sel = NoSel
    /\ wk = NoWalk
    /\ msg = NoMsg
    /\ call = NoCall

\* run() up to the end of prune(), on an instance of any day shift
PruneRun(d, klass, shift) ==
    /\ nextRun = 1
    /\ Run(d, klass, shift)

NextPrune == \E d \in Drips, k \in Klasses, s \in SelectShifts : PruneRun(d, k, s)

SpecPrune == InitPrune /\ [][NextPrune]_vars

\* the users with a SentDrip of drip d dated strictly before instant t
SentBefore(d, t) ==
    {sentdrips[i].user : i \in {j \in SentIdx : /\ sentdrips[j].drip = d
                                                 /\ sentdrips[j].date < t}}

\* C21: the pruned queryset of a run is its selected queryset, in order,
\* without exactly the users that have a SentDrip of the same campaign dated
\* strictly before the wall clock (not the shifted now of the instance); rows
\* of other campaigns and of users outside the selection remove nobody.
C21_PruneExactlySentBefore ==
    \A r \in RunIds :
        Evaluated(r)
            => /\ runs[r].target = get_queryset(runs[r].drip, runs[r].shift)
               /\ runs[r].qs =
                     SelectSeq(runs[r].target,
                               LAMBDA u: u \notin SentBefore(runs[r].drip, clock))

\* a run shifted one day ahead keeps a user whose row is dated at the clock
\* (before the shifted now), ignores a row of another campaign for a user
\* it keeps, and prunes somebody
C21_Witness ==
    \E r \in RunIds, u, v, w \in Users :
        /\ Evaluated(r)
        /\ runs[r].shift = 1
        /\ u \in Range(runs[r].qs)
        /\ \E i \in SentIdx : /\ sentdrips[i].drip = runs[r].drip
                               /\ sentdrips[i].user = u
                               /\ sentdrips[i].date = clock
        /\ v \in Range(runs[r].qs)
        /\ \E i \in SentIdx : /\ sentdrips[i].drip # runs[r].drip
                               /\ sentdrips[i].user = v
                               /\ sentdrips[i].date < clock
        /\ w \in Range(runs[r].target)
        /\ w \notin Range(runs[r].qs)

(***************************************************************************)
(* The specification of the send_drips command: DripQueryset.send over the *)
(* enabled campaigns, one run() after the other, an exception of a run     *)
(* leaving the loop and the command.                                       *)
(***************************************************************************)
\* Drip.objects.filter(enabled=True), in id order
EnabledDrips == SelectSeq([d \in Drips |-> d], LAMBDA d: drips[d].enabled)

InitCommand ==
    /\ clock = 0
    /\ \E en \in [Drips -> BOOLEAN] :
         drips = [d \in Drips |-> DripRow(en[d], "default", RunRules(d))]
    /\ userRows = AllUsers
    /\ serious \in BOOLEAN
    /\ sentdrips = <<>>
    /\ runs = [r \in RunIds |-> NoRun]
    /\ nextRun = 1
    /\ mails = <<>>
    /\ sb = NoBatch
    /\ sbInput = NoInput
    /\ posts = <<>>
    /\ sel = NoSel
    /\ wk = NoWalk
    /\ msg = NoMsg
    /\ \E um \in BOOLEAN : call = [fn |-> "send", use_mailgun |-> um]

\* an exception of a run() has left the loop of DripQueryset.send
SendAborted == \E r \in RunIds : runs[r].ret = RetRaised

\* one turn of the loop of DripQueryset.send: drip.run() of the next campaign
SendNextDrip ==
    /\ call.fn = "send"
    /\ ~SendAborted
    /\ nextRun <= Len(EnabledDrips)
    /\ Run(EnabledDrips[nextRun],
           IF call.use_mailgun THEN "DripMailgun" ELSE "DripBase", 0)

NextCommand ==
    \/ SendNextDrip
    \/ \E r \in RunIds : SendUser(r)
    \/ \E r \in RunIds : SendReturn(r)
    \/ \E r \in RunIds : MailgunSend(r)
    \/ SendBatchPost
    \/ SendBatchReturn
    \/ Tick

SpecCommand == InitCommand /\ [][NextCommand]_vars

\* the command has ended: by the end of the iteration or by an exception
SendOver ==
    /\ \A r \in RunIds : runs[r].pc \in {"idle", "done"}
    /\ SendAborted \/ nextRun > Len(EnabledDrips)

\* the calls of run() made on campaign d
RunsOf(d) == {r \in RunIds : runs[r].pc # "idle" /\ runs[r].drip = d}

\* C22: the command calls run() on no disabled campaign and at most once on
\* a campaign, and when it has ended it has called run() on every enabled
\* campaign, also when the run of an earlier campaign raised.
C22_EveryEnabledCampaignRunOnce ==
    /\ \A d \in Drips : /\ Cardinality(RunsOf(d)) <= 1
                         /\ ~drips[d].enabled => RunsOf(d) = {}
    /\ SendOver => \A d \in Drips : drips[d].enabled => RunsOf(d) # {}

(***************************************************************************)
(* The specification of the core operations on a SentDrip table: a run of  *)
(* either variant on a table with or without an earlier row, and, once the *)
(* run has written its rows, a get_queryset, a walk or a direct send_batch.*)
(***************************************************************************)
StoreTables == {tb \in SentTables(0) : Len(tb) <= 1}

\* the instances Drip.drip and Drip.drip_mailgun of the campaigns
StoreInstances ==
    {DripBase_init(k, d, [name |-> "welcome", from_email |-> "None",
                          from_email_name |-> "None", subject_template |-> "set",
                          body_template |-> "set"], 0) : k \in Klasses, d \in Drips}

StoreInputs ==
    {[pending |-> TRUE, items |-> it, size |-> 1, url_ok |-> TRUE, real |-> re] :
        it \in {b \in BatchItems : Len(b) = 2 /\ InvalidEntries(b) = {}},
        re \in BOOLEAN}

InitStore ==
    /\ clock = 0
    /\ drips = [d \in Drips |-> DripRow(TRUE, "default", RunRules(d))]
    /\ userRows = AllUsers
    /\ serious \in BOOLEAN
    /\ sentdrips \in StoreTables
    /\ runs = [r \in RunIds |-> NoRun]
    /\ nextRun = 1
    /\ mails = <<>>
    /\ sb = NoBatch
    /\ sbInput \in StoreInputs
    /\ posts = <<>>
    /\ sel = NoSel
    /\ wk = NoWalk
    /\ msg = NoMsg
    /\ call = NoCall

StoreRun(d, klass) ==
    /\ nextRun = 1
    /\ Run(d, klass, 0)

\* the run has ended and no other operation was called after it
StoreIdle ==
    /\ runs[1].pc = "done"
    /\ ~sel.done
    /\ ~wk.done
    /\ sbInput.pending

NextStore ==
    \/ \E d \in Drips, k \in Klasses : StoreRun(d, k)
    \/ \E r \in RunIds : SendUser(r)
    \/ \E r \in RunIds : SendReturn(r)
    \/ \E r \in RunIds : MailgunSend(r)
    \/ SendBatchPost
    \/ SendBatchReturn
    \/ Tick
    \/ StoreIdle /\ \E d \in Drips, s \in SelectShifts : GetQueryset(d, s)
    \/ StoreIdle /\ \E self \in StoreInstances, p \in 0..MaxWalk, f \in 0..MaxWalk :
                        Walk(self, p, f)
    \/ StoreIdle /\ SendBatch

SpecStore == InitStore /\ [][NextStore]_vars

\* the stored fields of a SentDrip row
StoredFields(row) ==
    <<row.drip, row.user, row.date, row.subject, row.from_email>>

\* C23: the SentDrip table is append-only under every core operation: each
\* step keeps every row it finds, in place and with its campaign, recipient,
\* timestamp, subject and from address unchanged.
C23_SentDripsAppendOnly ==
    [][/\ Len(sentdrips') >= Len(sentdrips)
       /\ \A i \in SentIdx :
             StoredFields(sentdrips'[i]) = StoredFields(sentdrips[i])]_vars

\* a table that held a row before the run, got a row from the run, and was
\* then left alone by a walk
C23_Witness ==
    /\ Len(sentdrips) >= 2
    /\ sentdrips[1].run = 0
    /\ sentdrips[2].run = 1
    /\ wk.done
    /\ Len(wk.out) > 0

\* C25: once DripBase.send has returned, every recipient whose message.send()
\* in the run was truthy has a SentDrip of the run: no confirmed send is left
\* without its row.
C25_ConfirmedSendIsRecorded ==
    \A r \in RunIds :
        (DirectRun(r) /\ runs[r].pc = "done")
            => \A k \in MailIdx :
                  (mails[k].run = r /\ mails[k].result = "sent")
                      => Recorded(r, mails[k].user)

(***************************************************************************)
(* The specification of interleaved runs: calls of DripBase.run, of one    *)
(* campaign or of two, start at any time and their send loops take turns   *)
(* in any order, on a SentDrip table with or without an earlier row.       *)
(***************************************************************************)
\* the campaigns select the same users by different rules: a filter in the
\* odd ones, an exclude in the even ones
ConcurrentRules(d) ==
    IF d % 2 = 1 THEN <<Rule("filter", "a", "exact", <<"2">>)>> ELSE RunRules(d)

\* the table before the runs: empty, or one row of the first user
ConcurrentTables == {tb \in StoreTables : \A i \in 1..Len(tb) : tb[i].user = 1}

InitConcurrent ==
    /\ clock = 0
    /\ drips = [d \in Drips |-> DripRow(TRUE, "default", ConcurrentRules(d))]
    /\ userRows = AllUsers
    /\ serious = FALSE
    /\ sentdrips \in ConcurrentTables
    /\ runs = [r \in RunIds |-> NoRun]
    /\ nextRun = 1
    /\ mails = <<>>
    /\ sb = NoBatch
    /\ sbInput = NoInput
    /\ posts = <<>>
    /\ sel = NoSel
    /\ wk = NoWalk
    /\ msg = NoMsg
    /\ call = NoCall

NextConcurrent ==
    \/ \E d \in Drips : RunStart(d, "DripBase", 0)
    \/ \E r \in RunIds : SendUser(r)
    \/ \E r \in RunIds : SendReturn(r)
    \/ Tick

SpecConcurrent == InitConcurrent /\ [][NextConcurrent]_vars

Started(r) == runs[r].pc # "idle"

\* the queryset run r iterates when no other run exists: the selection
\* without the users that had a row of the campaign before the runs, dated
\* before the cutoff
AloneQs(r) ==
    SelectSeq(get_queryset(runs[r].drip, 0),
              LAMBDA u: \A i \in SentIdx :
                  ~(/\ sentdrips[i].run = 0
                    /\ sentdrips[i].drip = runs[r].drip
                    /\ sentdrips[i].user = u
                    /\ sentdrips[i].date < runs[r].cutoff))

\* C24: when the runs of two different campaigns interleave, each run
\* iterates the queryset it would iterate alone, sends to those users in that
\* order and to nobody else, and its SentDrips are rows of its own campaign
\* for its own confirmed sends: the rows of one campaign neither prune nor
\* add a recipient of the other.
C24_DifferentCampaignsIndependent ==
    (\A r1, r2 \in RunIds :
        (Started(r1) /\ Started(r2) /\ r1 # r2) => runs[r1].drip # runs[r2].drip)
        => \A r \in RunIds :
              Started(r)
                 => /\ runs[r].qs = AloneQs(r)
                    /\ SelectSeq(mails, LAMBDA m: m.run = r)
                          = [i \in 1..(runs[r].idx - 1) |->
                               [run |-> r, drip |-> runs[r].drip,
                                user |-> runs[r].qs[i],
                                result |-> SelectSeq(mails,
                                              LAMBDA m: m.run = r)[i].result,
                                at |-> SelectSeq(mails, LAMBDA m: m.run = r)[i].at]]
                    /\ \A i \in SentIdx :
                          sentdrips[i].run = r
                             => /\ sentdrips[i].drip = runs[r].drip
                                /\ \E k \in MailIdx :
                                      /\ mails[k].run = r
                                      /\ mails[k].user = sentdrips[i].user
                                      /\ mails[k].result = "sent"

\* two runs of different campaigns in their loops at once, the later one
\* started after a row of the earlier one was dated before its cutoff, for a
\* user it selects all the same
C24_Witness ==
    \E r1, r2 \in RunIds, u \in Users :
        /\ runs[r1].pc = "send"
        /\ runs[r2].pc = "send"
        /\ runs[r1].drip # runs[r2].drip
        /\ \E i \in SentIdx : /\ sentdrips[i].run = r1
                               /\ sentdrips[i].user = u
                               /\ sentdrips[i].date < runs[r2].cutoff
        /\ Mailed(r2, u)

\* C26: when two runs of one campaign interleave, no recipient is sent the
\* message by both runs and no recipient has two SentDrips of the campaign.
C26_SameCampaignNoDoubleSend ==
    /\ \A r1, r2 \in RunIds, u \in Users :
          (r1 # r2 /\ Started(r1) /\ Started(r2) /\ runs[r1].drip = runs[r2].drip)
              => ~(Delivered(r1, u) /\ Delivered(r2, u))
    /\ \A i, j \in SentIdx :
          (i # j /\ sentdrips[i].run # 0 /\ sentdrips[j].run # 0)
              => ~(/\ sentdrips[i].drip = sentdrips[j].drip
                   /\ sentdrips[i].user = sentdrips[j].user)

====
